---- MODULE Spec2Model ----
(***************************************************************************)
(* GotYourBack: incremental file backup.                                   *)
(*                                                                         *)
(* The model covers BackupManager.backup_file and its helpers              *)
(* (backup_manager.py), the in-memory SQLite store of DatabaseManager with *)
(* its disk snapshot (database_manager.py), the hash of file_scanner.py,   *)
(* the worker pool of main.py and the version folders of                   *)
(* versioning_manager.py.                                                  *)
(*                                                                         *)
(* The specifications:                                                     *)
(*   Spec      one BackupManager built on one DatabaseManager; a caller    *)
(*             invokes backup_file repeatedly while the file system        *)
(*             changes under it.                                           *)
(*   SpecMain  the tool: main() maps process_file over the worklist with a *)
(*             pool of workers, once per run of the tool. Source files may *)
(*             vanish at any moment and are edited between runs; edits in  *)
(*             the middle of a call are the subject of Spec.               *)
(*   SpecPool  main() with a worklist that pool.map cuts into tasks of     *)
(*             several entries; process_file may raise in its constructors.*)
(*   SpecLoop  one BackupManager on one DatabaseManager kept across runs:  *)
(*             every file of the tree is backed up, run after run.         *)
(*   SpecStore the DatabaseManager alone: updates, snapshots, loads,       *)
(*             closing, reopening.                                         *)
(*   SpecMirror  two source roots backed up in parallel into one backup    *)
(*             directory.                                                  *)
(*   SpecPrune   remove_deleted_backups on a backed-up tree.               *)
(*   SpecVersions  create_versioned_backup calls of two clients on one     *)
(*             backup directory.                                           *)
(*                                                                         *)
(* A path is a sequence of path components. A file's content is a sequence *)
(* of bytes; os.path.getsize is its length. The digest of a content is the *)
(* pair <<algorithm, content>>: distinct contents have distinct digests    *)
(* (collisions of the digest function are not modelled). The last_backup   *)
(* column, which the code writes and never reads, is left out.             *)
(***************************************************************************)
EXTENDS Naturals, Sequences, FiniteSets

\* ---------------------------------------------------------------- bounds
MaxLen     == 1   \* longest file content, in bytes
MaxChanges == 1   \* file-system changes made around the program
MaxFaults  == 1   \* injected I/O or store failures
MaxCalls   == 3   \* create_versioned_backup calls on one backup directory
NumWorkers == 2   \* worker processes of the pool

Byte    == {0, 1}
Workers == 1..NumWorkers
\* The caller of Spec runs in one process: the first.
Caller  == CHOOSE w \in Workers : \A v \in Workers : w <= v

\* ------------------------------------------------------------- config.py
BACKUP_DIR     == <<"extra", "GYB", "BackUp">>
HASH_ALGORITHM == "md5"

\* -------------------------------------------------------------- helpers
RECURSIVE SeqsUpTo(_)
SeqsUpTo(n) ==
  IF n = 0 THEN {<<>>}
  ELSE LET S == SeqsUpTo(n - 1)
       IN  S \cup {Append(s, b) : s \in {t \in S : Len(t) = n - 1}, b \in Byte}

Contents == SeqsUpTo(MaxLen)

Prefixes(c) == {SubSeq(c, 1, k) : k \in 0..Len(c)}

\* The source root handed to backup_file as source_base_dir, and the files
\* scan_directory finds under it.
SourceRoot == <<"home", "src">>
FileNames  == {"a.txt", "b.txt"}
Files      == {Append(SourceRoot, n) : n \in FileNames}

None == <<>>

\* Python's exception classes: every class below is a subclass of Exception,
\* FileNotFoundError and PermissionError are subclasses of OSError.
Exceptions == {"FileNotFoundError", "PermissionError", "OSError", "sqlite3.Error", "ValueError"}

\* -------------------------------------------------------- file_scanner.py
calculate_file_hash(content, algorithm) == <<algorithm, content>>

\* ------------------------------------------------------ backup_manager.py
IsPrefixOf(base, p) == Len(base) <= Len(p) /\ SubSeq(p, 1, Len(base)) = base

\* pathlib's relative_to: the path below the base (ValueError when the file is
\* not under the base: callers check IsPrefixOf first).
relative_to(file_path, base) == SubSeq(file_path, Len(base) + 1, Len(file_path))

\* BACKUP_DIR / source_base_dir.name / relative_path
prepare_backup_paths(file_path, source_base_dir) ==
  BACKUP_DIR \o <<source_base_dir[Len(source_base_dir)]>>
             \o relative_to(file_path, source_base_dir)

BackupPaths == {prepare_backup_paths(f, SourceRoot) : f \in Files}

\* ---------------------------------------------------- database_manager.py
\* The file_hashes table: a function from the stored paths (the primary key)
\* to rows.
EmptyDb == [k \in {} |-> [hash_code |-> None, mod_time |-> 0, file_size |-> 0]]

Row(hash_code, mod_time, file_size) ==
  [hash_code |-> hash_code, mod_time |-> mod_time, file_size |-> file_size]

\* INSERT OR REPLACE: the row of the path is replaced as a whole.
update_file_data(table, file_path, hash_code, mod_time, file_size) ==
  [k \in DOMAIN table \cup {file_path} |->
     IF k = file_path THEN Row(hash_code, mod_time, file_size) ELSE table[k]]

get_file_hash(table, file_path) ==
  IF file_path \in DOMAIN table THEN table[file_path].hash_code ELSE None

get_file_metadata(table, file_path) ==
  IF file_path \in DOMAIN table
  THEN <<table[file_path].mod_time, table[file_path].file_size>>
  ELSE <<None, None>>

\* The same table as SQL sees it: a set of rows, file_path being a column.
\* SELECT file_path, hash_code, mod_time, file_size FROM file_hashes.
SqlRow(file_path, hash_code, mod_time, file_size) ==
  [file_path |-> file_path, hash_code |-> hash_code,
   mod_time |-> mod_time, file_size |-> file_size]

SqlRows(table) ==
  {SqlRow(k, table[k].hash_code, table[k].mod_time, table[k].file_size) : k \in DOMAIN table}

\* An INSERT into a table that declares no key: the new row is added.
insert_without_key(rows, row) == rows \cup {row}

\* INSERT OR REPLACE INTO file_hashes, file_path being the PRIMARY KEY: the
\* rows that conflict with the new row on the key are deleted, then the new
\* row is inserted.
insert_or_replace(rows, row) ==
  {r \in rows : r.file_path # row.file_path} \cup {row}

\* The snapshot file: whether it exists, whether the database in it has the
\* table file_hashes, and the rows of the table.
NoSnapshot == [exists |-> FALSE, has_table |-> FALSE, rows |-> EmptyDb]

\* The file sqlite3.connect creates where there is none: a database with no
\* table.
EmptyFile == [exists |-> TRUE, has_table |-> FALSE, rows |-> EmptyDb]

\* backup_to_disk: the snapshot file holds the table as it is at the call.
backup_to_disk(table) == [exists |-> TRUE, has_table |-> TRUE, rows |-> table]

\* sqlite3.connect(self.backup_file): the file is created when there is none.
sqlite3_connect(snapshot) == IF snapshot.exists THEN snapshot ELSE EmptyFile

\* load_from_disk: the in-memory database is replaced as a whole by the
\* database of the file, the one sqlite3.connect creates when there is none.
load_from_disk(snapshot) == sqlite3_connect(snapshot)

\* A constructor that looks for the snapshot where it is not: nothing is
\* loaded.
NewDatabaseManager_without_load(snapshot) == EmptyDb

\* DatabaseManager.__init__: an empty in-memory table, replaced by the
\* snapshot's when the snapshot file exists (load_from_disk).
NewDatabaseManager(snapshot) ==
  IF snapshot.exists THEN load_from_disk(snapshot).rows ELSE EmptyDb

\* Whether the database of a DatabaseManager constructed on the snapshot has
\* the table: create_tables makes it, load_from_disk replaces the database.
NewDatabaseHasTable(snapshot) ==
  IF snapshot.exists THEN load_from_disk(snapshot).has_table ELSE TRUE

\* ------------------------------------------------------------------ state
VARIABLES
  src,        \* source file system: path -> [exists, content, mtime]
  bak,        \* backup file system: backup path -> [exists, content]
  disk,       \* the snapshot file of the store: [exists, rows]
  changes,    \* file-system changes made so far (the clock of mtimes)
  faults,     \* failures injected so far
  db,         \* worker -> the in-memory table of its DatabaseManager
  pc,         \* worker -> position inside backup_file
  cur,        \* worker -> file_path of the call
  file_hash,  \* worker -> the local file_hash of the call
  obs,        \* worker -> what the current (or last) call did
  mainpc,     \* position of main(): "api" (no main), "map", "done", "aborted";
              \* of SpecLoop's caller: "loop", "rest"
  worklist,   \* file_data of the current run
  pending,    \* entries of file_data not yet handed to a worker
  log,        \* the current run (what each call did) and the one before it
  store,      \* SpecStore: the file_hashes table as SQL rows, and its history
  mirror,     \* SpecMirror: the source roots given to main, the entries of
              \* file_data being copied and copied, and the backup tree they wrote
  prune,      \* SpecPrune: the remove_deleted_backups call in progress
  ver,        \* SpecVersions: a versioned backup directory and the
              \* create_versioned_backup calls at work in it
  pool        \* SpecPool: the entries of file_data in the tasks of pool.map

\* The variables of the specifications that stand beside Spec and SpecMain.
sideVars == <<store, mirror, prune, ver, pool>>

vars == <<src, bak, disk, changes, faults, db, pc, cur, file_hash, obs,
          mainpc, worklist, pending, log, sideVars>>

runVars  == <<worklist, pending>>
mainVars == <<mainpc, worklist, pending>>

Missing == [exists |-> FALSE, content |-> <<>>, mtime |-> 0]
NoFile  == [exists |-> FALSE, content |-> <<>>]

\* The rows a table holds for one path (empty when it holds none).
RowsOf(table, file_path) == [k \in DOMAIN table \cap {file_path} |-> table[k]]

\* What a call has done so far.
NoObs == [started   |-> FALSE,
          hashed    |-> FALSE,     \* calculate_file_hash returned
          decision  |-> "none",    \* "backup", "skip"
          bakExisted|-> FALSE,     \* backup_path.exists() in the detector
          consulted |-> FALSE,     \* get_file_hash was called
          metaMatch |-> FALSE,     \* stored mod_time and file_size equal the file's, at the detector
          hashMatch |-> FALSE,     \* stored hash equals file_hash, at the detector
          copy      |-> "none",    \* "ok", "failed"
          upserted  |-> FALSE,     \* update_file_data was executed
          error     |-> "none",    \* the exception that ended the call
          escaped   |-> FALSE,     \* that exception left process_file or backup_file
          mod_time  |-> 0,         \* the local mod_time of _update_db, while it runs
          seen      |-> [mtime |-> 0, size |-> 0],  \* the file's mtime and size when it was
                                                     \* hashed, while the call runs
          pre       |-> EmptyDb,   \* the path's rows when the call started
          post      |-> EmptyDb]   \* the path's rows when the call returned

\* A run of the tool: the changes and faults counted when it started, and
\* the call that processed each file.
NewRun(c, k) == [ran |-> TRUE, changes |-> c, faults |-> k, calls |-> [f \in Files |-> NoObs]]
NoRun        == [ran |-> FALSE, changes |-> 0, faults |-> 0, calls |-> [f \in Files |-> NoObs]]

\* What is kept of the run before the current one: when it started, and the
\* files whose copy failed in it.
Past(r) == [ran |-> r.ran, changes |-> r.changes, faults |-> r.faults,
            copyFailed |-> {f \in Files : r.calls[f].copy = "failed"}]

\* SpecStore's state and history: whether the DatabaseManager was closed,
\* whether the in-memory database has the table file_hashes, the table as SQL
\* rows, the exception the last call on the manager raised, the arguments of
\* the last update_file_data call of this DatabaseManager that returned for
\* each path (None: no call), the database as it was at the last
\* backup_to_disk call that returned, and whether the DatabaseManager was
\* constructed after that call and not used since.
NoStore == [closed |-> FALSE, has_table |-> TRUE, rows |-> {}, error |-> "none",
            last |-> [f \in Files |-> None],
            saved |-> [called |-> FALSE, has_table |-> TRUE, table |-> EmptyDb],
            fresh |-> FALSE]

NoMirror == [roots |-> {}, open |-> {}, done |-> {}, tree |-> <<>>]

\* No remove_deleted_backups call was made: `todo` are the entries its loop
\* has still to visit, `unlink` the entry whose source it found missing and
\* that it is about to delete (None: no such entry), `deleted` the backup
\* files it deleted, `kept` those it visited and left.
NoPrune == [active |-> FALSE, todo |-> {}, unlink |-> None, deleted |-> {}, kept |-> {}]

\* The clients of the versioned backup directory, and an empty directory:
\* `dirs` are the names of its subdirectories, `creator` the call that created
\* each, `writes` the copies made (call and folder), `calls` the calls started.
VClients == {"c1", "c2"}

NoCall == [pc |-> "idle", call |-> 0, next_version |-> 0]

NoVer == [dirs |-> {}, creator |-> <<>>, writes |-> {}, calls |-> 0,
          client |-> [p \in VClients |-> NoCall]]

NoPool == [entry |-> <<>>, map |-> "none"]

InitSide ==
  /\ store = NoStore
  /\ mirror = NoMirror
  /\ prune = NoPrune
  /\ ver = NoVer
  /\ pool = NoPool

InitContent(f) == IF f[Len(f)] = "a.txt" THEN <<0>> ELSE <<1>>

InitCommon ==
  /\ src = [f \in Files |-> [exists |-> TRUE, content |-> InitContent(f), mtime |-> 0]]
  /\ bak = [b \in BackupPaths |-> NoFile]
  /\ disk = NoSnapshot
  /\ changes = 0
  /\ faults = 0
  /\ db = [w \in Workers |-> EmptyDb]
  /\ pc = [w \in Workers |-> "idle"]
  /\ cur = [w \in Workers |-> None]
  /\ file_hash = [w \in Workers |-> None]
  /\ obs = [w \in Workers |-> NoObs]

\* One BackupManager(db_manager) in the hands of a caller.
Init ==
  /\ InitCommon
  /\ InitSide
  /\ mainpc = "api"
  /\ worklist = {}
  /\ pending = {}
  /\ log = [prev |-> Past(NoRun), this |-> NoRun]

\* ------------------------------------------------- the file system around
Idle == \A w \in Workers : pc[w] = "idle"

\* The source file is written: new content, and a new mtime unless the
\* writer restores the old one (keep).
WriteSource(f, c, keep) ==
  /\ changes < MaxChanges
  /\ src[f].exists
  /\ c # src[f].content
  /\ src' = [src EXCEPT ![f] = [exists |-> TRUE, content |-> c,
                                mtime |-> IF keep THEN src[f].mtime ELSE changes + 1]]
  /\ changes' = changes + 1
  /\ UNCHANGED <<bak, disk, faults, db, pc, cur, file_hash, obs, log, mainVars, sideVars>>

DeleteSource(f) ==
  /\ changes < MaxChanges
  /\ src[f].exists
  /\ src' = [src EXCEPT ![f] = Missing]
  /\ changes' = changes + 1
  /\ UNCHANGED <<bak, disk, faults, db, pc, cur, file_hash, obs, log, mainVars, sideVars>>

\* A source file that does not exist is created.
CreateSource(f, c) ==
  /\ changes < MaxChanges
  /\ ~src[f].exists
  /\ src' = [src EXCEPT ![f] = [exists |-> TRUE, content |-> c, mtime |-> changes + 1]]
  /\ changes' = changes + 1
  /\ UNCHANGED <<bak, disk, faults, db, pc, cur, file_hash, obs, log, mainVars, sideVars>>

\* A backup file is deleted out-of-band, between calls.
DeleteBackup(b) ==
  /\ changes < MaxChanges
  /\ Idle
  /\ bak[b].exists
  /\ bak' = [bak EXCEPT ![b] = NoFile]
  /\ changes' = changes + 1
  /\ UNCHANGED <<src, disk, faults, db, pc, cur, file_hash, obs, log, mainVars, sideVars>>

\* ------------------------------------------------- backup_manager.py, steps
\* The except clauses. "except Exception" catches every class of Exceptions.
copy_file_catches(e) == e \in Exceptions

perform_backup_catches(e) == e \in Exceptions

backup_file_catches(e) ==
  \/ e = "FileNotFoundError"
  \/ e = "PermissionError"
  \/ e \in Exceptions

\* A detector that trusts matching mod_time and file_size before the hash.
should_backup_file_metadata_first(table, backup_exists, file_path, fh) ==
  IF ~backup_exists
  THEN [result |-> TRUE, consulted |-> FALSE]
  ELSE IF /\ file_path \in DOMAIN table
          /\ src[file_path].exists
          /\ get_file_metadata(table, file_path)
               = <<src[file_path].mtime, Len(src[file_path].content)>>
       THEN [result |-> FALSE, consulted |-> TRUE]
       ELSE [result |-> fh # get_file_hash(table, file_path), consulted |-> TRUE]

\* A detector that reports a change whenever the backup file exists.
should_backup_file_always(table, backup_exists, file_path, fh) ==
  [result |-> TRUE, consulted |-> backup_exists]

\* A detector that asks the store before it looks for the backup file.
should_backup_file_store_first(table, backup_exists, file_path, fh) ==
  [result |-> fh # get_file_hash(table, file_path), consulted |-> TRUE]

\* A detector that takes a path without a stored hash for an unchanged file.
should_backup_file_unknown_is_unchanged(table, backup_exists, file_path, fh) ==
  IF ~backup_exists
  THEN [result |-> TRUE, consulted |-> FALSE]
  ELSE [result |-> /\ get_file_hash(table, file_path) # None
                   /\ fh # get_file_hash(table, file_path),
        consulted |-> TRUE]

\* _should_backup_file: the answer, and whether the store was asked.
should_backup_file(table, backup_exists, file_path, fh) ==
  IF ~backup_exists
  THEN [result |-> TRUE, consulted |-> FALSE]
  ELSE [result |-> fh # get_file_hash(table, file_path), consulted |-> TRUE]

BackupPathOf(w) == prepare_backup_paths(cur[w], SourceRoot)

\* backup_file returns (normally, or after a handler logged the error). In
\* the tool the call's DatabaseManager and BackupManager are locals of
\* process_file, gone when it returns; the run's log keeps what the call did.
\* In SpecLoop the one manager and its store live on from call to call.
Return(w, o, table) ==
  LET done == [o EXCEPT !.post = RowsOf(table, cur[w]),
                        !.seen = NoObs.seen, !.mod_time = NoObs.mod_time]
  IN  /\ pc' = [pc EXCEPT ![w] = "idle"]
      /\ file_hash' = [file_hash EXCEPT ![w] = None]
      /\ mainpc' = mainpc
      /\ IF mainpc = "api"
         THEN /\ obs' = [obs EXCEPT ![w] = done]
              /\ db' = [db EXCEPT ![w] = table]
              /\ UNCHANGED <<cur, log>>
         ELSE /\ obs' = [obs EXCEPT ![w] = NoObs]
              /\ db' = [db EXCEPT ![w] = IF mainpc = "loop" THEN table ELSE EmptyDb]
              /\ cur' = [cur EXCEPT ![w] = None]
              /\ log' = [log EXCEPT !.this.calls[cur[w]] = done]

\* An exception leaves backup_file. In the pool, process_file raises: the
\* worker hands the exception back as the result of its task and is free for
\* the next one, the other workers go on, and pool.map re-raises the
\* exception in main when every task is done (MapReturns). A caller of
\* backup_file itself (Spec, SpecLoop) gets the exception and ends.
Escape(w, o) ==
  LET done == [o EXCEPT !.escaped = TRUE,
                        !.seen = NoObs.seen, !.mod_time = NoObs.mod_time]
  IN  IF mainpc = "map"
      THEN /\ pc' = [pc EXCEPT ![w] = "idle"]
           /\ file_hash' = [file_hash EXCEPT ![w] = None]
           /\ obs' = [obs EXCEPT ![w] = NoObs]
           /\ db' = [db EXCEPT ![w] = EmptyDb]
           /\ cur' = [cur EXCEPT ![w] = None]
           /\ log' = [log EXCEPT !.this.calls[cur[w]] = done]
           /\ mainpc' = mainpc
      ELSE /\ pc' = [pc EXCEPT ![w] = "idle"]
           /\ obs' = [obs EXCEPT ![w] = done]
           /\ mainpc' = "aborted"
           /\ UNCHANGED <<db, cur, file_hash, log>>

\* Exception e raised, in a call that has done `o` so far, under the handlers
\* of which `caught` says one catches it.
Raise(w, o, e, caught) ==
  LET ended == [o EXCEPT !.error = e]
  IN  IF caught THEN Return(w, ended, db[w]) ELSE Escape(w, ended)

\* backup_file, entry: resolve the path and prepare the backup path. `table`
\* is the table of the db_manager the BackupManager was built on. Every file
\* of Files is under SourceRoot, so relative_to does not raise; the creation
\* of the backup path's parent directories is not modelled.
Enter(w, f, table) ==
  /\ IsPrefixOf(SourceRoot, f)
  /\ pc' = [pc EXCEPT ![w] = "hash"]
  /\ cur' = [cur EXCEPT ![w] = f]
  /\ obs' = [obs EXCEPT ![w] = [NoObs EXCEPT !.started = TRUE, !.pre = RowsOf(table, f)]]
  /\ db' = [db EXCEPT ![w] = table]
  /\ UNCHANGED <<file_hash, log, mainpc>>

\* file_hash = calculate_file_hash(file_path, config.HASH_ALGORITHM)
HashStep(w) ==
  /\ pc[w] = "hash"
  /\ mainpc # "aborted"
  /\ \/ /\ src[cur[w]].exists
        /\ file_hash' = [file_hash EXCEPT ![w] =
                           calculate_file_hash(src[cur[w]].content, HASH_ALGORITHM)]
        /\ pc' = [pc EXCEPT ![w] = "decide"]
        /\ obs' = [obs EXCEPT ![w].hashed = TRUE,
                              ![w].seen = [mtime |-> src[cur[w]].mtime,
                                           size |-> Len(src[cur[w]].content)]]
        /\ UNCHANGED <<faults, db, cur, log, mainpc>>
     \/ /\ ~src[cur[w]].exists
        /\ Raise(w, obs[w], "FileNotFoundError", backup_file_catches("FileNotFoundError"))
        /\ UNCHANGED faults
     \/ /\ src[cur[w]].exists
        /\ faults < MaxFaults
        /\ faults' = faults + 1
        /\ Raise(w, obs[w], "PermissionError", backup_file_catches("PermissionError"))
  /\ UNCHANGED <<src, bak, disk, changes, runVars, sideVars>>

\* if self._should_backup_file(file_path, backup_path, file_hash): ... else: skip
\* When the backup file exists the store is asked, and get_file_hash may
\* raise: the call ends with no decision made.
Decide(w) ==
  /\ pc[w] = "decide"
  /\ mainpc # "aborted"
  /\ LET f == cur[w]
         exists == bak[BackupPathOf(w)].exists
         d == should_backup_file(db[w], exists, f, file_hash[w])
         o == [obs[w] EXCEPT
                 !.decision = IF d.result THEN "backup" ELSE "skip",
                 !.bakExisted = exists,
                 !.consulted = d.consulted,
                 !.metaMatch = /\ f \in DOMAIN db[w]
                               /\ src[f].exists
                               /\ db[w][f].mod_time = src[f].mtime
                               /\ db[w][f].file_size = Len(src[f].content),
                 !.hashMatch = (get_file_hash(db[w], f) = file_hash[w])]
     IN  \/ /\ d.result
            /\ pc' = [pc EXCEPT ![w] = "copy"]
            /\ obs' = [obs EXCEPT ![w] = o]
            /\ UNCHANGED <<faults, db, cur, file_hash, log, mainpc>>
         \/ /\ ~d.result
            /\ Return(w, o, db[w])
            /\ UNCHANGED faults
         \/ /\ exists
            /\ faults < MaxFaults
            /\ faults' = faults + 1
            /\ Raise(w, [obs[w] EXCEPT !.bakExisted = TRUE, !.consulted = TRUE],
                     "sqlite3.Error", backup_file_catches("sqlite3.Error"))
  /\ UNCHANGED <<src, bak, disk, changes, runVars, sideVars>>

\* _copy_file: shutil.copy2(source, destination) under its own try/except.
\* copy2 is copyfile, which writes the content, then copystat, which reads
\* the source's times and mode and sets them on the destination. A failed
\* copy leaves the destination as `left`.
CopyFails(w, e, left) ==
  /\ bak' = [bak EXCEPT ![BackupPathOf(w)] = left]
  /\ IF copy_file_catches(e)
     THEN /\ pc' = [pc EXCEPT ![w] = "update"]
          /\ obs' = [obs EXCEPT ![w].copy = "failed"]
          /\ UNCHANGED <<db, cur, file_hash, log, mainpc>>
     ELSE LET o == [obs[w] EXCEPT !.copy = "failed", !.error = e]
          IN  IF perform_backup_catches(e) \/ backup_file_catches(e)
              THEN Return(w, o, db[w])
              ELSE Escape(w, o)

\* shutil.copy2, copyfile: the source is opened (FileNotFoundError when it is
\* gone, the destination untouched) and its content written to the
\* destination. A failure on the way leaves the destination as it was or
\* holding a prefix of the content.
Copy(w) ==
  /\ pc[w] = "copy"
  /\ mainpc # "aborted"
  /\ \/ /\ src[cur[w]].exists
        /\ bak' = [bak EXCEPT ![BackupPathOf(w)] =
                     [exists |-> TRUE, content |-> src[cur[w]].content]]
        /\ pc' = [pc EXCEPT ![w] = "copystat"]
        /\ UNCHANGED <<faults, db, cur, file_hash, obs, log, mainpc>>
     \/ /\ ~src[cur[w]].exists
        /\ CopyFails(w, "FileNotFoundError", bak[BackupPathOf(w)])
        /\ UNCHANGED faults
     \/ /\ src[cur[w]].exists
        /\ faults < MaxFaults
        /\ faults' = faults + 1
        /\ \E left \in {bak[BackupPathOf(w)]}
                       \cup {[exists |-> TRUE, content |-> p] :
                               p \in Prefixes(src[cur[w]].content)} :
             CopyFails(w, "OSError", left)
  /\ UNCHANGED <<src, disk, changes, runVars, sideVars>>

\* shutil.copy2, copystat: os.stat(source) raises FileNotFoundError when the
\* source was deleted since copyfile, and setting the times or the mode of
\* the destination may fail; in both cases the copy fails with the content
\* written.
CopyStat(w) ==
  /\ pc[w] = "copystat"
  /\ mainpc # "aborted"
  /\ \/ /\ src[cur[w]].exists
        /\ pc' = [pc EXCEPT ![w] = "update"]
        /\ obs' = [obs EXCEPT ![w].copy = "ok"]
        /\ UNCHANGED <<bak, faults, db, cur, file_hash, log, mainpc>>
     \/ /\ ~src[cur[w]].exists
        /\ CopyFails(w, "FileNotFoundError", bak[BackupPathOf(w)])
        /\ UNCHANGED faults
     \/ /\ src[cur[w]].exists
        /\ faults < MaxFaults
        /\ faults' = faults + 1
        /\ CopyFails(w, "OSError", bak[BackupPathOf(w)])
  /\ UNCHANGED <<src, disk, changes, runVars, sideVars>>

\* _update_db, first statement: mod_time = os.path.getmtime(file_path), under
\* the try/except of _perform_backup.
GetMtime(w) ==
  /\ pc[w] = "update"
  /\ mainpc # "aborted"
  /\ \/ /\ src[cur[w]].exists
        /\ pc' = [pc EXCEPT ![w] = "getsize"]
        /\ obs' = [obs EXCEPT ![w].mod_time = src[cur[w]].mtime]
        /\ UNCHANGED <<db, cur, file_hash, log, mainpc>>
     \/ /\ ~src[cur[w]].exists
        /\ Raise(w, obs[w], "FileNotFoundError",
                 perform_backup_catches("FileNotFoundError")
                   \/ backup_file_catches("FileNotFoundError"))
  /\ UNCHANGED <<src, bak, disk, changes, faults, runVars, sideVars>>

\* _update_db, the rest: file_size = os.path.getsize(file_path), then
\* update_file_data(file_path, file_hash, mod_time, file_size).
UpdateDb(w) ==
  /\ pc[w] = "getsize"
  /\ mainpc # "aborted"
  /\ \/ /\ src[cur[w]].exists
        /\ Return(w, [obs[w] EXCEPT !.upserted = TRUE],
                  update_file_data(db[w], cur[w], file_hash[w],
                                   obs[w].mod_time, Len(src[cur[w]].content)))
        /\ UNCHANGED faults
     \/ /\ ~src[cur[w]].exists
        /\ Raise(w, obs[w], "FileNotFoundError",
                 perform_backup_catches("FileNotFoundError")
                   \/ backup_file_catches("FileNotFoundError"))
        /\ UNCHANGED faults
     \/ /\ src[cur[w]].exists
        /\ faults < MaxFaults
        /\ faults' = faults + 1
        /\ Raise(w, obs[w], "sqlite3.Error",
                 perform_backup_catches("sqlite3.Error")
                   \/ backup_file_catches("sqlite3.Error"))
  /\ UNCHANGED <<src, bak, disk, changes, runVars, sideVars>>

\* ------------------------------------------------------- Spec: the caller
\* backup_manager.backup_file(file_path, source_base_dir) on the one manager.
CallBackupFile(f) ==
  /\ mainpc = "api"
  /\ pc[Caller] = "idle"
  /\ Enter(Caller, f, db[Caller])
  /\ UNCHANGED <<src, bak, disk, changes, faults, runVars, sideVars>>

Env ==
  \/ \E f \in Files, c \in Contents, keep \in BOOLEAN : WriteSource(f, c, keep)
  \/ \E f \in Files : DeleteSource(f)
  \/ \E b \in BackupPaths : DeleteBackup(b)

Next ==
  \/ \E f \in Files : CallBackupFile(f)
  \/ HashStep(Caller)
  \/ Decide(Caller)
  \/ Copy(Caller)
  \/ CopyStat(Caller)
  \/ GetMtime(Caller)
  \/ UpdateDb(Caller)
  \/ Env

Spec == Init /\ [][Next]_vars

\* ------------------------------------------------------ SpecMain: main.py
\* main() after initialize(): file_data holds the files scan_directory found
\* under the source root, and the pool maps process_file over it.
InitMain ==
  /\ InitCommon
  /\ InitSide
  /\ mainpc = "map"
  /\ worklist = Files
  /\ pending = Files
  /\ log = [prev |-> Past(NoRun), this |-> NewRun(0, 0)]

\* Pool.map cuts the iterable into tasks of chunksize entries:
\* chunksize, extra = divmod(len(iterable), len(self._pool) * 4), one more
\* when extra is not zero.
chunksize(len, processes) ==
  (len \div (processes * 4)) + (IF len % (processes * 4) = 0 THEN 0 ELSE 1)

\* What the constructors of process_file raise: the mkdir of
\* DatabaseManager.__init__ or of BackupManager._setup_logging fails (OSError:
\* PermissionError, FileExistsError); an sqlite3 error at the connect or at
\* the load of the snapshot leaves process_file the same way.
ConstructorErrors == {"OSError"}

\* process_file(file_data) in a worker: a new DatabaseManager, a new
\* BackupManager on it, then backup_file. The workers are alike: the entry
\* goes to the first idle one. With the worklists of this model a task of the
\* pool is one entry (chunksize 1); SpecPool has longer tasks. The constructors
\* run outside any try: when one raises, process_file raises before
\* backup_file is entered.
ProcessFile(w, f) ==
  /\ mainpc = "map"
  /\ chunksize(Cardinality(worklist), NumWorkers) = 1
  /\ pc[w] = "idle"
  /\ \A v \in Workers : v < w => pc[v] # "idle"
  /\ f \in pending
  /\ pending' = pending \ {f}
  /\ \/ /\ Enter(w, f, NewDatabaseManager(disk))
        /\ UNCHANGED faults
     \/ /\ faults < MaxFaults
        /\ faults' = faults + 1
        /\ \E e \in ConstructorErrors :
             log' = [log EXCEPT !.this.calls[f] =
                       [NoObs EXCEPT !.error = e, !.escaped = TRUE]]
        /\ UNCHANGED <<db, pc, cur, file_hash, obs, mainpc>>
  /\ UNCHANGED <<src, bak, disk, changes, worklist, sideVars>>

\* pool.map returns when every task is done, or re-raises the exception of a
\* task that raised; main() ends there.
MapReturns ==
  /\ mainpc = "map"
  /\ pending = {}
  /\ Idle
  /\ mainpc' = IF \E f \in Files : log.this.calls[f].escaped THEN "aborted" ELSE "done"
  /\ UNCHANGED <<src, bak, disk, changes, faults, db, pc, cur, file_hash, obs,
                 worklist, pending, log, sideVars>>

\* main() has ended, by returning or by raising.
Ended == mainpc \in {"done", "aborted"}

\* The tool is run again on the same source root.
StartRun ==
  /\ Ended
  /\ mainpc' = "map"
  /\ worklist' = {f \in Files : src[f].exists}
  /\ pending' = worklist'
  /\ log' = [prev |-> Past(log.this), this |-> NewRun(changes, faults)]
  /\ UNCHANGED <<src, bak, disk, changes, faults, db, pc, cur, file_hash, obs, sideVars>>

\* Between two runs of the tool a source file is edited.
EditBetweenRuns(f, c) ==
  /\ Ended
  /\ WriteSource(f, c, FALSE)

NextMain ==
  \/ \E w \in Workers, f \in Files : ProcessFile(w, f)
  \/ \E w \in Workers : HashStep(w)
  \/ \E w \in Workers : Decide(w)
  \/ \E w \in Workers : Copy(w)
  \/ \E w \in Workers : CopyStat(w)
  \/ \E w \in Workers : GetMtime(w)
  \/ \E w \in Workers : UpdateDb(w)
  \/ MapReturns
  \/ StartRun
  \/ \E f \in Files, c \in Contents : EditBetweenRuns(f, c)
  \/ \E f \in Files : DeleteSource(f)
  \/ \E b \in BackupPaths : DeleteBackup(b)

SpecMain == InitMain /\ [][NextMain]_vars

\* ------------------------------------ SpecPool: the tasks of pool.map
\* main() with a file_data long enough for pool.map to cut it into tasks of
\* more than one entry. An entry is known by its place in file_data. What
\* backup_file does with a file is the subject of SpecMain: here process_file
\* returns (backup_file catches every exception) or raises in its
\* constructors.
NumEntries  == 4 * NumWorkers + 1
PoolEntries == 1..NumEntries

\* The task an entry is in: the tasks are consecutive slices of file_data.
TaskOf(e) == ((e - 1) \div chunksize(NumEntries, NumWorkers)) + 1

InitPool ==
  /\ InitCommon
  /\ store = NoStore
  /\ mirror = NoMirror
  /\ prune = NoPrune
  /\ ver = NoVer
  /\ pool = [entry |-> [e \in PoolEntries |-> "queued"], map |-> "running"]
  /\ mainpc = "pool"
  /\ worklist = {}
  /\ pending = {}
  /\ log = [prev |-> Past(NoRun), this |-> NoRun]

poolFrame == <<src, bak, disk, changes, db, pc, cur, file_hash, obs, mainVars, log,
               store, mirror, prune, ver>>

\* A free worker takes the next task from the queue.
PoolTake(t) ==
  /\ pool.map = "running"
  /\ \E e \in PoolEntries : TaskOf(e) = t /\ pool.entry[e] = "queued"
  /\ \A e \in PoolEntries : TaskOf(e) < t => pool.entry[e] # "queued"
  /\ Cardinality({TaskOf(e) : e \in {x \in PoolEntries : pool.entry[x] = "taken"}})
       < NumWorkers
  /\ pool' = [pool EXCEPT !.entry = [e \in PoolEntries |->
                                       IF TaskOf(e) = t THEN "taken" ELSE @[e]]]
  /\ UNCHANGED <<faults, poolFrame>>

\* The worker calls process_file for the next entry of its task. When the call
\* raises, the task ends with the exception: its remaining entries are dropped.
PoolProcessFile(e) ==
  /\ pool.entry[e] = "taken"
  /\ \A x \in PoolEntries : (TaskOf(x) = TaskOf(e) /\ x < e) => pool.entry[x] # "taken"
  /\ \/ /\ pool' = [pool EXCEPT !.entry[e] = "done"]
        /\ UNCHANGED faults
     \/ /\ faults < MaxFaults
        /\ faults' = faults + 1
        /\ pool' = [pool EXCEPT !.entry = [x \in PoolEntries |->
                                             IF x = e THEN "raised"
                                             ELSE IF TaskOf(x) = TaskOf(e) /\ @[x] = "taken"
                                                  THEN "dropped"
                                                  ELSE @[x]]]
  /\ UNCHANGED poolFrame

\* Every task is done: pool.map returns, or re-raises the exception of a task.
PoolMapEnds ==
  /\ pool.map = "running"
  /\ \A e \in PoolEntries : pool.entry[e] \notin {"queued", "taken"}
  /\ pool' = [pool EXCEPT !.map = IF \E e \in PoolEntries : pool.entry[e] = "raised"
                                  THEN "raised" ELSE "returned"]
  /\ UNCHANGED <<faults, poolFrame>>

NextPool ==
  \/ \E t \in PoolEntries : PoolTake(t)
  \/ \E e \in PoolEntries : PoolProcessFile(e)
  \/ PoolMapEnds

SpecPool == InitPool /\ [][NextPool]_vars

\* ------------------------- SpecLoop: one manager and one store, run by run
\* A caller keeps one BackupManager on one DatabaseManager and backs up every
\* file of the source tree with it, one backup_file call after the other; that
\* is a run, and runs follow each other. The file system changes between the
\* runs; steps fail inside them.
\* A run of the loop: NewRun, and the file systems and the table as they were
\* when it started.
NewLoopRun(c, k) ==
  [ran |-> TRUE, changes |-> c, faults |-> k, calls |-> [f \in Files |-> NoObs],
   src0 |-> src, bak0 |-> bak, db0 |-> db[Caller]]

\* What is kept of the run before the current one: when it started, the source
\* tree it started on, and the files whose copy succeeded in it and whose
\* metadata update then failed.
PastLoop(r) ==
  [ran |-> r.ran, changes |-> r.changes, faults |-> r.faults, src0 |-> r.src0,
   upsertFailed |-> {f \in Files : /\ r.calls[f].copy = "ok"
                                   /\ ~r.calls[f].upserted
                                   /\ r.calls[f].error = "sqlite3.Error"}]

InitLoop ==
  /\ InitCommon
  /\ InitSide
  /\ mainpc = "loop"
  /\ worklist = Files
  /\ pending = Files
  /\ log = [prev |-> [ran |-> FALSE, changes |-> 0, faults |-> 0, src0 |-> src,
                      upsertFailed |-> {}],
            this |-> NewLoopRun(0, 0)]

\* backup_manager.backup_file(file_path, source_base_dir) for the next entry.
LoopCall(f) ==
  /\ mainpc = "loop"
  /\ pc[Caller] = "idle"
  /\ f \in pending
  /\ pending' = pending \ {f}
  /\ Enter(Caller, f, db[Caller])
  /\ UNCHANGED <<src, bak, disk, changes, faults, worklist, sideVars>>

\* Every entry was processed: the run is over.
LoopEnds ==
  /\ mainpc = "loop"
  /\ pending = {}
  /\ pc[Caller] = "idle"
  /\ mainpc' = "rest"
  /\ UNCHANGED <<src, bak, disk, changes, faults, db, pc, cur, file_hash, obs,
                 worklist, pending, log, sideVars>>

\* The next run, on the files the source tree holds now.
LoopStarts ==
  /\ mainpc = "rest"
  /\ mainpc' = "loop"
  /\ worklist' = {f \in Files : src[f].exists}
  /\ pending' = worklist'
  /\ log' = [prev |-> PastLoop(log.this), this |-> NewLoopRun(changes, faults)]
  /\ UNCHANGED <<src, bak, disk, changes, faults, db, pc, cur, file_hash, obs, sideVars>>

\* Between two runs: a source file is written or deleted, a backup file is
\* deleted.
ChangeBetweenRuns ==
  /\ mainpc = "rest"
  /\ \/ \E f \in Files, c \in Contents, keep \in BOOLEAN : WriteSource(f, c, keep)
     \/ \E f \in Files : DeleteSource(f)
     \/ \E b \in BackupPaths : DeleteBackup(b)

NextLoop ==
  \/ \E f \in Files : LoopCall(f)
  \/ HashStep(Caller)
  \/ Decide(Caller)
  \/ Copy(Caller)
  \/ CopyStat(Caller)
  \/ GetMtime(Caller)
  \/ UpdateDb(Caller)
  \/ LoopEnds
  \/ LoopStarts
  \/ ChangeBetweenRuns

SpecLoop == InitLoop /\ [][NextLoop]_vars

\* ------------------------------------- SpecStore: database_manager.py alone
\* One DatabaseManager at a time on the snapshot file: its client updates
\* rows, takes snapshots, loads the file, closes the manager, and constructs
\* a new one on the same file. The table is kept twice, as the function db[Caller] and as the SQL
\* rows store.rows.
StoreHashes == {calculate_file_hash(<<b>>, HASH_ALGORITHM) : b \in Byte}
StoreTimes  == {1, 2}
StoreSizes  == {1, 2}

coreVars == <<src, bak, changes, faults, pc, cur, file_hash, obs, mainVars, log>>

InitStore ==
  /\ InitCommon
  /\ store = NoStore
  /\ mirror = NoMirror
  /\ prune = NoPrune
  /\ ver = NoVer
  /\ pool = NoPool
  /\ mainpc = "store"
  /\ worklist = {}
  /\ pending = {}
  /\ log = [prev |-> Past(NoRun), this |-> NoRun]

\* A call on a closed DatabaseManager: every statement on self.conn raises
\* sqlite3.ProgrammingError.
StoreRaises(e) == [store EXCEPT !.error = e, !.fresh = FALSE]

\* db_manager.update_file_data(file_path, hash_code, mod_time, file_size):
\* the INSERT raises sqlite3.OperationalError when the database has no table.
StoreUpdate(f, h, m, s) ==
  /\ IF store.closed
     THEN /\ store' = StoreRaises("ProgrammingError")
          /\ UNCHANGED db
     ELSE IF store.has_table
     THEN /\ db' = [db EXCEPT ![Caller] = update_file_data(db[Caller], f, h, m, s)]
          /\ store' = [store EXCEPT
                         !.rows = insert_or_replace(store.rows, SqlRow(f, h, m, s)),
                         !.error = "none",
                         !.last[f] = Row(h, m, s),
                         !.fresh = FALSE]
     ELSE /\ store' = StoreRaises("OperationalError")
          /\ UNCHANGED db
  /\ UNCHANGED <<disk, coreVars, mirror, prune, ver, pool>>

\* db_manager.create_tables(), called by the client: CREATE TABLE IF NOT
\* EXISTS leaves a table that exists as it is.
StoreCreateTables ==
  /\ store' = IF store.closed
              THEN StoreRaises("ProgrammingError")
              ELSE [store EXCEPT !.has_table = TRUE, !.error = "none", !.fresh = FALSE]
  /\ UNCHANGED <<db, disk, coreVars, mirror, prune, ver, pool>>

\* db_manager.backup_to_disk(): sqlite3.connect opens the file, creating it
\* when there is none, and the file is replaced by the in-memory database,
\* with or without its table. On a closed manager the copy raises and the
\* file stays as sqlite3.connect left it.
StoreBackupToDisk ==
  /\ IF store.closed
     THEN /\ disk' = sqlite3_connect(disk)
          /\ store' = StoreRaises("ProgrammingError")
     ELSE /\ disk' = IF store.has_table THEN backup_to_disk(db[Caller]) ELSE EmptyFile
          /\ store' = [store EXCEPT
                         !.saved = [called |-> TRUE, has_table |-> store.has_table,
                                    table |-> db[Caller]],
                         !.error = "none",
                         !.fresh = FALSE]
  /\ UNCHANGED <<db, coreVars, mirror, prune, ver, pool>>

\* db_manager.load_from_disk(), called by the client: the in-memory database
\* becomes the file's, and a file is created when there was none. On a closed
\* manager the copy raises after sqlite3.connect opened the file.
StoreLoadFromDisk ==
  /\ disk' = sqlite3_connect(disk)
  /\ IF store.closed
     THEN /\ store' = StoreRaises("ProgrammingError")
          /\ UNCHANGED db
     ELSE /\ db' = [db EXCEPT ![Caller] = load_from_disk(disk).rows]
          /\ store' = [store EXCEPT !.has_table = load_from_disk(disk).has_table,
                                    !.rows = SqlRows(load_from_disk(disk).rows),
                                    !.error = "none",
                                    !.last = [f \in Files |-> None],
                                    !.fresh = FALSE]
  /\ UNCHANGED <<coreVars, mirror, prune, ver, pool>>

\* db_manager.close(): the in-memory database is gone. Closing a closed
\* manager does nothing.
StoreClose ==
  /\ db' = [db EXCEPT ![Caller] = EmptyDb]
  /\ store' = [store EXCEPT !.closed = TRUE,
                            !.has_table = FALSE,
                            !.rows = {},
                            !.error = "none",
                            !.last = [f \in Files |-> None],
                            !.fresh = FALSE]
  /\ UNCHANGED <<disk, coreVars, mirror, prune, ver, pool>>

\* DatabaseManager(...) on the same snapshot file: the client uses the new
\* manager from now on, whether it closed the one before or not.
StoreReopen ==
  /\ db' = [db EXCEPT ![Caller] = NewDatabaseManager(disk)]
  /\ store' = [store EXCEPT !.closed = FALSE,
                            !.has_table = NewDatabaseHasTable(disk),
                            !.rows = SqlRows(NewDatabaseManager(disk)),
                            !.error = "none",
                            !.last = [f \in Files |-> None],
                            !.fresh = TRUE]
  /\ UNCHANGED <<disk, coreVars, mirror, prune, ver, pool>>

NextStore ==
  \/ \E f \in Files, h \in StoreHashes, m \in StoreTimes, s \in StoreSizes :
       StoreUpdate(f, h, m, s)
  \/ StoreCreateTables
  \/ StoreBackupToDisk
  \/ StoreLoadFromDisk
  \/ StoreClose
  \/ StoreReopen

SpecStore == InitStore /\ [][NextStore]_vars

\* ------------------------- SpecMirror: several source roots in one backup
\* main() is given two source directories. Every file scan_directory finds
\* under a directory enters file_data as (file_path, source_path), and the
\* pool's processes call backup_file on the entries in parallel: each call
\* copies its file to the backup path _prepare_backup_paths computes. Every
\* call has a new, empty store, so every call decides to copy; failures play
\* no part here.
UserDirs    == {"u1", "u2"}
SourceNames == {"data", "docs"}
SourceRoots == {<<"home", u, n>> : u \in UserDirs, n \in SourceNames}

\* file_data for the source paths `roots`: (file_path, source_base_dir).
FileData(roots) ==
  {[file_path |-> Append(r, n), source_base_dir |-> r] : r \in roots, n \in FileNames}

MirrorPaths ==
  {prepare_backup_paths(e.file_path, e.source_base_dir) : e \in FileData(SourceRoots)}

\* The content of a source file, in blocks that name the file: the files of
\* u1 are two blocks long, the others one.
MirrorContent(file_path) ==
  IF file_path[2] = "u1" THEN <<file_path, file_path>> ELSE <<file_path>>

\* A write of `data` at offset 0 of a file that holds `old`: what the file
\* holds beyond the data stays.
write_at_start(old, data) == data \o SubSeq(old, Len(data) + 1, Len(old))

InitMirror ==
  /\ InitCommon
  /\ store = NoStore
  /\ prune = NoPrune
  /\ ver = NoVer
  /\ pool = NoPool
  /\ \E r1, r2 \in SourceRoots :
       /\ r1 # r2
       /\ mirror = [roots |-> {r1, r2}, open |-> {}, done |-> {},
                    tree |-> [b \in MirrorPaths |-> NoFile]]
  /\ mainpc = "mirror"
  /\ worklist = {}
  /\ pending = {}
  /\ log = [prev |-> Past(NoRun), this |-> NoRun]

\* backup_file(e.file_path, e.source_base_dir) in a free process of the pool,
\* up to shutil.copy2's open of the destination for writing: the backup file
\* is created or truncated.
MirrorOpen(e) ==
  /\ e \in FileData(mirror.roots) \ (mirror.open \cup mirror.done)
  /\ Cardinality(mirror.open) < NumWorkers
  /\ IsPrefixOf(e.source_base_dir, e.file_path)
  /\ mirror' = [mirror EXCEPT
                  !.open = @ \cup {e},
                  !.tree[prepare_backup_paths(e.file_path, e.source_base_dir)] =
                     [exists |-> TRUE, content |-> <<>>]]
  /\ UNCHANGED <<db, disk, coreVars, store, prune, ver, pool>>

\* The rest of the call: shutil.copy2 writes the source's content from the
\* start of the file it opened, and closes it.
MirrorWrite(e) ==
  /\ e \in mirror.open
  /\ mirror' = [mirror EXCEPT
                  !.open = @ \ {e},
                  !.done = @ \cup {e},
                  !.tree[prepare_backup_paths(e.file_path, e.source_base_dir)] =
                     [exists |-> TRUE,
                      content |-> write_at_start(@.content, MirrorContent(e.file_path))]]
  /\ UNCHANGED <<db, disk, coreVars, store, prune, ver, pool>>

NextMirror ==
  \/ \E e \in FileData(SourceRoots) : MirrorOpen(e)
  \/ \E e \in FileData(SourceRoots) : MirrorWrite(e)

SpecMirror == InitMirror /\ [][NextMirror]_vars

\* --------------------------------- SpecPrune: remove_deleted_backups
\* The source tree was backed up by one manager; some source files are gone
\* since. The caller invokes remove_deleted_backups(source_base_dir) on the
\* manager, any number of times, while the file system changes around it:
\* files are written, deleted and created again at any moment of the call.
\* source_file = source_base_dir / backup_file.relative_to(BACKUP_DIR / source_base_dir.name)
source_of_backup(backup_file, source_base_dir) ==
  source_base_dir
    \o relative_to(backup_file, BACKUP_DIR \o <<source_base_dir[Len(source_base_dir)]>>)

\* if not source_file.exists(): self._delete_file(backup_file)
delete_backup_of(source_exists) == ~source_exists

InitPrune ==
  /\ \E gone \in SUBSET Files :
       src = [f \in Files |->
                IF f \in gone THEN Missing
                ELSE [exists |-> TRUE, content |-> InitContent(f), mtime |-> 0]]
  /\ bak = [b \in BackupPaths |->
              [exists |-> TRUE, content |-> InitContent(source_of_backup(b, SourceRoot))]]
  /\ db = [w \in Workers |->
             IF w = Caller
             THEN [f \in Files |->
                     Row(calculate_file_hash(InitContent(f), HASH_ALGORITHM),
                         0, Len(InitContent(f)))]
             ELSE EmptyDb]
  /\ disk = NoSnapshot
  /\ changes = 0
  /\ faults = 0
  /\ pc = [w \in Workers |-> "idle"]
  /\ cur = [w \in Workers |-> None]
  /\ file_hash = [w \in Workers |-> None]
  /\ obs = [w \in Workers |-> NoObs]
  /\ store = NoStore
  /\ mirror = NoMirror
  /\ prune = NoPrune
  /\ ver = NoVer
  /\ pool = NoPool
  /\ mainpc = "prune"
  /\ worklist = {}
  /\ pending = {}
  /\ log = [prev |-> Past(NoRun), this |-> NoRun]

pruneFrame == <<disk, changes, pc, cur, file_hash, obs, mainVars, log, store, mirror, ver,
               pool>>

\* remove_deleted_backups(source_base_dir): backup_dir.rglob('*') lists the
\* files under the source's backup directory.
PruneCall ==
  /\ ~prune.active
  /\ prune' = [active |-> TRUE, todo |-> {b \in BackupPaths : bak[b].exists},
               unlink |-> None, deleted |-> {}, kept |-> {}]
  /\ UNCHANGED <<src, bak, db, faults, pruneFrame>>

\* One turn of the loop, for backup_file b, up to the test
\* `if not source_file.exists()`.
PruneExists(b) ==
  /\ prune.active
  /\ prune.unlink = None
  /\ b \in prune.todo
  /\ LET source_file == source_of_backup(b, SourceRoot)
         visited == [prune EXCEPT !.todo = @ \ {b}]
     IN  prune' = IF delete_backup_of(src[source_file].exists)
                  THEN [visited EXCEPT !.unlink = b]
                  ELSE [visited EXCEPT !.kept = @ \cup {b}]
  /\ UNCHANGED <<src, bak, db, faults, pruneFrame>>

\* _delete_file(backup_file): file_path.unlink(). _delete_file catches every
\* exception of unlink: the file was deleted meanwhile (FileNotFoundError), or
\* the deletion fails (a fault) and the file stays.
PruneUnlink ==
  /\ prune.active
  /\ prune.unlink # None
  /\ LET b == prune.unlink
         turned == [prune EXCEPT !.unlink = None]
     IN  \/ /\ bak[b].exists
            /\ bak' = [bak EXCEPT ![b] = NoFile]
            /\ prune' = [turned EXCEPT !.deleted = @ \cup {b}]
            /\ UNCHANGED faults
         \/ /\ ~bak[b].exists
            /\ prune' = [turned EXCEPT !.kept = @ \cup {b}]
            /\ UNCHANGED <<bak, faults>>
         \/ /\ bak[b].exists
            /\ faults < MaxFaults
            /\ faults' = faults + 1
            /\ prune' = [turned EXCEPT !.kept = @ \cup {b}]
            /\ UNCHANGED bak
  /\ UNCHANGED <<src, db, pruneFrame>>

\* The loop ends: remove_deleted_backups returns.
PruneReturns ==
  /\ prune.active
  /\ prune.todo = {}
  /\ prune.unlink = None
  /\ prune' = [prune EXCEPT !.active = FALSE]
  /\ UNCHANGED <<src, bak, db, faults, pruneFrame>>

NextPrune ==
  \/ PruneCall
  \/ \E b \in BackupPaths : PruneExists(b)
  \/ PruneUnlink
  \/ PruneReturns
  \/ Env
  \/ \E f \in Files, c \in Contents : CreateSource(f, c)

SpecPrune == InitPrune /\ [][NextPrune]_vars

\* ------------------------------------ SpecVersions: versioning_manager.py
\* One backup directory (backup_root_dir / relative_path.parent) and two
\* clients that call create_versioned_backup for files of it; the steps of
\* their calls interleave. A directory name is the pair of its first letter
\* and the rest: f"v{n}" is <<"v", n>>.
VersionDir(n) == <<"v", n>>

\* int(d.name[1:])
version_number(d) == d[2]

Max(S) == CHOOSE x \in S : \A y \in S : y <= x

\* get_next_version(backup_dir), given the names of the directories in it.
get_next_version(dirs) ==
  LET existing_versions == {d \in dirs : d[1] = "v"}
  IN  IF existing_versions = {} THEN 1
      ELSE Max({version_number(d) : d \in existing_versions}) + 1

InitVersions ==
  /\ InitCommon
  /\ store = NoStore
  /\ mirror = NoMirror
  /\ prune = NoPrune
  /\ ver = NoVer
  /\ pool = NoPool
  /\ mainpc = "versions"
  /\ worklist = {}
  /\ pending = {}
  /\ log = [prev |-> Past(NoRun), this |-> NoRun]

verFrame == <<db, disk, coreVars, store, mirror, prune, pool>>

\* create_versioned_backup(file_path, relative_path) is entered: backup_dir
\* is made sure to exist.
VersionCall(p) ==
  /\ ver.client[p].pc = "idle"
  /\ ver.calls < MaxCalls
  /\ ver' = [ver EXCEPT !.calls = @ + 1,
                        !.client[p] = [pc |-> "next", call |-> ver.calls + 1,
                                       next_version |-> 0]]
  /\ UNCHANGED verFrame

\* next_version = self.get_next_version(backup_dir)
GetNextVersion(p) ==
  /\ ver.client[p].pc = "next"
  /\ ver' = [ver EXCEPT !.client[p].pc = "mkdir",
                        !.client[p].next_version = get_next_version(ver.dirs)]
  /\ UNCHANGED verFrame

\* version_dir.mkdir(parents=True, exist_ok=True): the folder is created
\* unless it exists.
MakeVersionDir(p) ==
  /\ ver.client[p].pc = "mkdir"
  /\ LET d == VersionDir(ver.client[p].next_version)
     IN  ver' = [ver EXCEPT
                   !.client[p].pc = "copy",
                   !.dirs = @ \cup {d},
                   !.creator = IF d \in ver.dirs THEN @
                               ELSE [k \in ver.dirs \cup {d} |->
                                       IF k = d THEN ver.client[p].call ELSE @[k]]]
  /\ UNCHANGED verFrame

\* shutil.copy2(file_path, version_dir / file_path.name), and the call returns.
CopyVersion(p) ==
  /\ ver.client[p].pc = "copy"
  /\ ver' = [ver EXCEPT
               !.client[p] = NoCall,
               !.writes = @ \cup {[call |-> ver.client[p].call,
                                   dir |-> VersionDir(ver.client[p].next_version)]}]
  /\ UNCHANGED verFrame

NextVersions ==
  \/ \E p \in VClients : VersionCall(p)
  \/ \E p \in VClients : GetNextVersion(p)
  \/ \E p \in VClients : MakeVersionDir(p)
  \/ \E p \in VClients : CopyVersion(p)

SpecVersions == InitVersions /\ [][NextVersions]_vars

\* ================================================================ claims
O == obs[Caller]

Returned == pc[Caller] = "idle" /\ O.started

\* C1: in _perform_backup, a failed copy is followed by no metadata update:
\* update_file_data is not executed in that call and the path's rows are the
\* same after the call as before it. (Spec)
C1_NoUpsertAfterFailedCopy ==
  O.copy = "failed" =>
    /\ ~O.upserted
    /\ (Returned => O.post = O.pre)

\* C2: when a backup_file call that copied the file and upserted its row
\* returns, the hash of the backup file's content equals the stored hash of the
\* file, whatever the source file's changes during the call. (Spec)
C2_BackupHashEqualsStoredHash ==
  [][ (/\ pc[Caller] = "getsize"
       /\ pc'[Caller] = "idle"
       /\ O.copy = "ok"
       /\ obs'[Caller].upserted)
      => LET b == bak'[BackupPathOf(Caller)]
         IN  /\ b.exists
             /\ calculate_file_hash(b.content, HASH_ALGORITHM)
                  = get_file_hash(db'[Caller], cur[Caller]) ]_vars

\* The rows one store holds after processing the worklist sequentially, no
\* file changing and no step failing: one row per file, of the file's state.
SequentialResult ==
  [f \in worklist |->
     Row(calculate_file_hash(src[f].content, HASH_ALGORITHM),
         src[f].mtime, Len(src[f].content))]

ThisCall(f) == log.this.calls[f]

QuietRun == changes = log.this.changes /\ faults = log.this.faults

\* C3: the second of two runs on an unchanged source tree (nothing changed
\* and nothing failed since the first run started) makes no copy and no
\* upsert. (SpecMain)
C3_SecondRunDoesNothing ==
  (/\ mainpc = "done"
   /\ log.prev.ran
   /\ changes = log.prev.changes
   /\ faults = log.prev.faults)
  => \A f \in worklist : ThisCall(f).copy = "none" /\ ~ThisCall(f).upserted

\* C4: when the run ends, main has taken the durable snapshot and every row
\* upserted during the pass is in it. (SpecMain)
C4_SnapshotAtEndOfPass ==
  mainpc = "done" =>
    /\ disk.exists
    /\ \A f \in worklist :
         ThisCall(f).upserted => RowsOf(disk.rows, f) = ThisCall(f).post

\* C5: after the pool processed the worklist, no file changing and no step
\* failing, the metadata store the run leaves holds one row per file: the rows
\* of the sequential run with one store. (SpecMain)
C5_NoLostUpdates ==
  (mainpc = "done" /\ changes = 0 /\ faults = 0)
  => NewDatabaseManager(disk) = SequentialResult

\* The copy of the caller's call is made: copyfile leaves the source's content
\* at the backup path, and copystat, when it does not fail and the source is
\* still there, ends the copy as a success with that content in place.
CopyIsMade ==
  /\ (pc[Caller] = "copy" /\ pc'[Caller] # "copy" /\ faults' = faults
        /\ src[cur[Caller]].exists)
     => /\ pc'[Caller] = "copystat"
        /\ bak'[BackupPathOf(Caller)]
             = [exists |-> TRUE, content |-> src[cur[Caller]].content]
  /\ (pc[Caller] = "copystat" /\ pc'[Caller] # "copystat" /\ faults' = faults
        /\ src[cur[Caller]].exists)
     => /\ obs'[Caller].copy = "ok"
        /\ bak'[BackupPathOf(Caller)] = bak[BackupPathOf(Caller)]

\* C6: a file whose content changed while its mod_time and file_size still
\* equal the stored ones, and whose backup file exists, is found to need a
\* backup (the hash differs from the stored one), the call goes on to the
\* copy, and the copy is made: it succeeds with the source's content at the
\* backup path unless a step of it fails or the source is deleted under it.
\* (Spec)
C6_HashChangeDetected ==
  [][ (/\ obs'[Caller].decision # "none"
       /\ obs'[Caller].bakExisted
       /\ obs'[Caller].metaMatch
       /\ ~obs'[Caller].hashMatch)
      => /\ obs'[Caller].decision = "backup"
         /\ pc'[Caller] \in {"copy", "copystat", "update", "getsize", "idle"}
         /\ (pc'[Caller] \notin {"copy", "copystat"} => obs'[Caller].copy # "none")
         /\ CopyIsMade ]_vars

C6_Witness ==
  /\ Returned
  /\ O.bakExisted /\ O.metaMatch /\ ~O.hashMatch
  /\ O.decision = "backup"
  /\ O.copy = "ok"
  /\ bak[BackupPathOf(Caller)].content = src[cur[Caller]].content

\* C7, as stated: with the backup file present and mod_time and file_size
\* equal to the stored ones, the detector answers skip and the call computes no
\* hash. (Spec)
C7_MetadataShortCircuit ==
  (O.decision # "none" /\ O.bakExisted /\ O.metaMatch)
  => (O.decision = "skip" /\ ~O.hashed)

\* C7, amended: with the backup file present and mod_time and file_size equal
\* to the stored ones, the detector answers skip exactly when the hash computed
\* for the call equals the stored hash; the hash is computed in every call that
\* reaches the detector, and a skipped file is neither copied nor upserted.
\* (Spec)
C7_SkipIffHashMatches ==
  /\ (O.decision # "none" /\ O.bakExisted /\ O.metaMatch)
     => ((O.decision = "skip") <=> O.hashMatch)
  /\ (O.decision # "none" => O.hashed)
  /\ (O.decision = "skip" => O.copy = "none" /\ ~O.upserted /\ (Returned => O.post = O.pre))

C7_Witness ==
  /\ Returned
  /\ O.bakExisted /\ O.metaMatch /\ O.hashMatch
  /\ O.hashed
  /\ O.decision = "skip"

\* C8: with no file at the backup path the detector answers true without
\* asking the store, also when the stored hash, mod_time and file_size all
\* match the source file; the file is copied again: the copy succeeds with
\* the source's content at the backup path unless a step of it fails or the
\* source is deleted under it. (Spec)
C8_MissingBackupShortCircuit ==
  [][ (obs'[Caller].decision # "none" /\ ~obs'[Caller].bakExisted)
      => /\ obs'[Caller].decision = "backup"
         /\ ~obs'[Caller].consulted
         /\ (pc'[Caller] \notin {"copy", "copystat"} => obs'[Caller].copy # "none")
         /\ (obs[Caller].decision # "none" => CopyIsMade) ]_vars

C8_Witness ==
  /\ Returned
  /\ faults = 0
  /\ ~O.bakExisted /\ O.metaMatch /\ O.hashMatch
  /\ O.decision = "backup"
  /\ O.copy = "ok"
  /\ bak[BackupPathOf(Caller)] = [exists |-> TRUE, content |-> src[cur[Caller]].content]

\* C9: a file whose copy failed in the previous run and that is processed in
\* a run in which nothing fails and nothing changes is found to need a backup
\* and copied: when the run ends its backup file holds the source's content.
\* (SpecMain)
C9_FailedCopyRetriedByRerun ==
  \A f \in Files :
    (/\ mainpc = "done"
     /\ f \in log.prev.copyFailed
     /\ f \in worklist
     /\ QuietRun)
    => /\ ThisCall(f).decision = "backup"
       /\ ThisCall(f).copy = "ok"
       /\ bak[prepare_backup_paths(f, SourceRoot)]
            = [exists |-> TRUE, content |-> src[f].content]

C9_Witness ==
  \E f \in Files :
    /\ mainpc = "done"
    /\ f \in log.prev.copyFailed
    /\ f \in worklist
    /\ QuietRun
    /\ ThisCall(f).bakExisted
    /\ ThisCall(f).copy = "ok"

\* C10: an error while one worklist entry is processed does not abort the
\* pass: when pool.map has ended, every entry of the worklist other than the
\* entries whose own processing failed has been processed to its end.
\* (SpecPool)
C10_ErrorsDoNotAbortThePass ==
  pool.map # "running"
  => \A e \in PoolEntries : pool.entry[e] \in {"done", "raised"}

\* C11: a DatabaseManager constructed on the snapshot file after a
\* backup_to_disk call that returned holds the rows the snapshotted store held
\* at the call: the same paths with the same hash, mod_time and file_size.
\* (SpecStore)
C11_SnapshotRoundTrip ==
  (store.fresh /\ store.saved.called)
  => /\ db[Caller] = store.saved.table
     /\ store.rows = SqlRows(store.saved.table)
     /\ store.has_table = store.saved.has_table

C11_Witness ==
  /\ store.fresh
  /\ store.saved.called
  /\ DOMAIN db[Caller] = Files
  /\ \E f, g \in Files : db[Caller][f] # db[Caller][g]

\* C12: the table holds at most one row per path, and the row of a path this
\* DatabaseManager updated carries the hash_code, mod_time and file_size of
\* the last update_file_data call for the path that returned, none of them
\* kept from the row it replaced; a database without the table holds no row.
\* (SpecStore)
C12_OneRowPerPathLastWriteWins ==
  /\ \A r1, r2 \in store.rows : r1.file_path = r2.file_path => r1 = r2
  /\ store.rows = SqlRows(db[Caller])
  /\ \A f \in Files :
       store.last[f] # None
       => SqlRow(f, store.last[f].hash_code, store.last[f].mod_time,
                 store.last[f].file_size) \in store.rows
  /\ ~store.has_table => store.rows = {}

C12_Witness ==
  \E f \in Files :
    /\ store.last[f] # None
    /\ store.saved.called
    /\ f \in DOMAIN store.saved.table
    /\ store.saved.table[f].hash_code # store.last[f].hash_code
    /\ store.saved.table[f].mod_time # store.last[f].mod_time
    /\ store.saved.table[f].file_size # store.last[f].file_size
    /\ Cardinality(store.rows) = Cardinality(Files)

\* C13: two files backed up from two distinct source roots have distinct
\* backup paths, and the backup of a file that was backed up holds the
\* content of that file, not replaced by the backup of a file of another
\* root. (SpecMirror)
C13_DistinctRootsDistinctBackupPaths ==
  /\ \A e1, e2 \in mirror.done :
       e1.source_base_dir # e2.source_base_dir
       => prepare_backup_paths(e1.file_path, e1.source_base_dir)
            # prepare_backup_paths(e2.file_path, e2.source_base_dir)
  /\ \A e \in mirror.done :
       mirror.tree[prepare_backup_paths(e.file_path, e.source_base_dir)]
         = [exists |-> TRUE, content |-> MirrorContent(e.file_path)]

\* The files whose source changed between the start of the previous run and
\* the start of this one.
Changed == {f \in Files : log.prev.src0[f] # log.this.src0[f]}

\* Nothing failed in the previous run or in this one, nothing changed during
\* this one, and one change was made between the two.
OneChangeBetweenQuietRuns ==
  /\ mainpc = "rest"
  /\ log.prev.ran
  /\ log.this.faults = log.prev.faults
  /\ faults = log.this.faults
  /\ log.this.changes = log.prev.changes + 1
  /\ changes = log.this.changes

\* C14: with one store shared across runs, the run that follows a change of
\* one source file's content copies and upserts that file and no other: one
\* copy and one upsert are made, and the backup file and the rows of every
\* other file are after the run what they were before it. (SpecLoop)
C14_OnlyTheChangedFileIsBackedUp ==
  \A f \in Files :
    (OneChangeBetweenQuietRuns /\ Changed = {f} /\ f \in worklist)
    => /\ ThisCall(f).copy = "ok" /\ ThisCall(f).upserted
       /\ {g \in Files : ThisCall(g).copy # "none"} = {f}
       /\ {g \in Files : ThisCall(g).upserted} = {f}
       /\ \A g \in Files \ {f} :
            /\ bak[prepare_backup_paths(g, SourceRoot)]
                 = log.this.bak0[prepare_backup_paths(g, SourceRoot)]
            /\ RowsOf(db[Caller], g) = RowsOf(log.this.db0, g)

C14_Witness ==
  \E f \in Files :
    /\ OneChangeBetweenQuietRuns /\ Changed = {f} /\ f \in worklist
    /\ worklist = Files
    /\ ThisCall(f).copy = "ok" /\ ThisCall(f).upserted
    /\ ThisCall(f).post # ThisCall(f).pre
    /\ \A g \in Files \ {f} : ThisCall(g).decision = "skip"

\* A file's copy succeeded and its metadata update failed in the previous
\* run; the file is processed again in this run, in which nothing fails and
\* nothing changes, and its backup file is still there.
RetryAfterFailedUpsert(f) ==
  /\ mainpc = "rest"
  /\ f \in log.prev.upsertFailed
  /\ f \in worklist
  /\ QuietRun
  /\ ThisCall(f).bakExisted

\* A call whose metadata update failed after its copy leaves the path's rows
\* as they were.
FailedUpsertLeavesStore ==
  \A f \in Files :
    (ThisCall(f).copy = "ok" /\ ThisCall(f).error = "sqlite3.Error")
    => (~ThisCall(f).upserted /\ ThisCall(f).post = ThisCall(f).pre)

\* C15, as stated: a metadata update that fails after the copy leaves the
\* store unchanged, and the next call for the path on the same store decides
\* a backup is needed, copies and upserts; the stored hash then equals the
\* source's hash. (SpecLoop)
C15_FailedUpsertRetried ==
  /\ FailedUpsertLeavesStore
  /\ \A f \in Files :
       RetryAfterFailedUpsert(f)
       => /\ ThisCall(f).decision = "backup"
          /\ ThisCall(f).copy = "ok"
          /\ ThisCall(f).upserted
          /\ get_file_hash(db[Caller], f)
               = calculate_file_hash(src[f].content, HASH_ALGORITHM)

\* C15, amended: a metadata update that fails after the copy leaves the store
\* unchanged; the next call for the path on the same store decides a backup is
\* needed exactly when the stored hash (none counting as a mismatch) differs
\* from the file's hash, and then it copies and upserts; in both cases the
\* stored hash equals the source's hash after the call. (SpecLoop)
C15_FailedUpsertRetriedOnMismatch ==
  /\ FailedUpsertLeavesStore
  /\ \A f \in Files :
       RetryAfterFailedUpsert(f)
       => /\ (ThisCall(f).decision = "backup") <=> ~ThisCall(f).hashMatch
          /\ (ThisCall(f).decision = "skip") <=> ThisCall(f).hashMatch
          /\ ThisCall(f).decision = "backup"
               => (ThisCall(f).copy = "ok" /\ ThisCall(f).upserted)
          /\ get_file_hash(db[Caller], f)
               = calculate_file_hash(src[f].content, HASH_ALGORITHM)

C15_Witness ==
  \E f \in Files :
    /\ RetryAfterFailedUpsert(f)
    /\ ThisCall(f).bakExisted
    /\ ThisCall(f).pre = EmptyDb
    /\ ThisCall(f).decision = "backup"
    /\ ThisCall(f).copy = "ok"
    /\ ThisCall(f).upserted

\* C16: the row a backup_file call upserts describes one state of the source
\* file: its mod_time and file_size are those the file had when the stored
\* hash was computed, whatever the file's changes during the call. (Spec)
C16_StoredTripleIsOneState ==
  [][ (/\ pc[Caller] = "getsize"
       /\ pc'[Caller] = "idle"
       /\ obs'[Caller].upserted)
      => \A k \in DOMAIN obs'[Caller].post :
           /\ obs'[Caller].post[k].hash_code = file_hash[Caller]
           /\ obs'[Caller].post[k].mod_time = O.seen.mtime
           /\ obs'[Caller].post[k].file_size = O.seen.size ]_vars

\* C17: a step of remove_deleted_backups deletes a backup file only if no
\* source file exists at source_base_dir / its relative path when it is
\* deleted, leaves every backup file whose source file exists as it is, and
\* leaves the metadata store as it is. (SpecPrune)
C17_PruneDeletesOnlyOrphans ==
  [][ prune' # prune
      => /\ db' = db
         /\ disk' = disk
         /\ \A b \in BackupPaths :
              /\ (bak[b].exists /\ ~bak'[b].exists)
                   => ~src[source_of_backup(b, SourceRoot)].exists
              /\ src[source_of_backup(b, SourceRoot)].exists => bak'[b] = bak[b] ]_vars

\* C18: the create_versioned_backup calls on one backup directory use version
\* folders in strictly increasing order, a later call a higher version, and
\* each call copies into the folder it created itself, for calls that follow
\* each other and for calls whose steps interleave. (SpecVersions)
C18_VersionFoldersNeverShared ==
  /\ \A w \in ver.writes : ver.creator[w.dir] = w.call
  /\ \A w1, w2 \in ver.writes :
       w1.call < w2.call => version_number(w1.dir) < version_number(w2.dir)

====
